---- MODULE Spec2Model ----
(***************************************************************************)
(* A model of the game-list scan worker (GameListWorker) with the content  *)
(* providers it fills and queries, and of the save-data factory            *)
(* (SaveData_Factory).                                                     *)
(***************************************************************************)
EXTENDS Integers, Sequences, FiniteSets, TLC

VARIABLES
    pc,               \* position of the worker: idle, queued, fill, titles, populate, done
    dir_path,         \* GameListWorker::dir_path
    deep_scan,        \* GameListWorker::deep_scan
    show_unknown,     \* UISettings::values.show_unknown
    stop_processing,  \* GameListWorker::stop_processing
    connected,        \* whether receivers are still connected to the worker's signals
    watch_list,       \* GameListWorker::watch_list
    manual,           \* the ManualContentProvider's entries
    installed,        \* the entries of the other provider slots of the union
    stack,            \* active ScanFileSystem calls, innermost last
    cur,              \* the directory entry whose callback passed the stop check
    installed_games,  \* the list AddTitlesToGameList iterates
    gi,               \* index of the next element of installed_games
    trace,            \* what the current run has done so far, in order
    preClear,         \* the keys the union resolved just before ClearAllEntries
    runs,             \* number of workers constructed so far
    prev,             \* the previous run, when it completed without a Cancel
    program_id,       \* Kernel::g_current_process->program_id
    dirs,             \* the directories that exist on the host
    last              \* the last SaveData_Factory call and its outcome

workerVars == <<pc, dir_path, deep_scan, show_unknown, stop_processing, connected,
                watch_list, manual, installed, stack, cur, installed_games, gi,
                trace, preClear, runs, prev>>
saveVars == <<program_id, dirs, last>>
vars == <<pc, dir_path, deep_scan, show_unknown, stop_processing, connected,
          watch_list, manual, installed, stack, cur, installed_games, gi,
          trace, preClear, runs, prev, program_id, dirs, last>>

\* Number of workers constructed, one after the other, over the same provider.
MaxRuns == 2

\* Recursion limit run() passes when deep_scan is set.
DeepScanLimit == 256

DIR_SEP == "/"

EmptyMap == [k \in {} |-> 0]

-----------------------------------------------------------------------------
(* The host file system the worker walks. *)

VName(stem, suffix) == [stem |-> stem, suffix |-> suffix]

FileName(vn) == IF vn.suffix = "" THEN vn.stem ELSE vn.stem \o "." \o vn.suffix

\* The entries of each directory, in the order ForeachDirectoryEntry visits them.
DirEntries ==
    ("/games" :> << VName("a", "nca"), VName("bad", "nsp"), VName("sub", ""),
                    VName("unk", "NRO"), VName("d", "nsp"), VName("notes", "txt") >>) @@
    ("/games/sub" :> << VName("main", ""), VName("deep", ""), VName("e", "XCI") >>) @@
    ("/games/sub/deep" :> << VName("MAIN", ""), VName("f", "nca") >>)

IsDirectory(p) == p \in DOMAIN DirEntries

Roots == {"/games", "/games/sub"}

NCAEntry(tt, cr, tid, f) == [title_type |-> tt, type |-> cr, title_id |-> tid, file |-> f]

\* What the loader interface reports for a file: whether GetLoader returns a
\* loader, GetFileType, ReadProgramId, the content type of an NCA, and the
\* NCAs of an NSP or of the secure partition of an XCI.
Info(loader, ft, res2, pid, cr, ncas) ==
    [loader |-> loader, file_type |-> ft, res2 |-> res2, program_id |-> pid,
     cr_type |-> cr, ncas |-> ncas]

FileInfo ==
    ("/games/a.nca" :> Info(TRUE, "NCA", "Success", 1, "Program", <<>>)) @@
    ("/games/bad.nsp" :> Info(FALSE, "Unknown", "Error", 0, "Program", <<>>)) @@
    ("/games/unk.NRO" :> Info(TRUE, "Unknown", "Error", 0, "Program", <<>>)) @@
    ("/games/d.nsp" :> Info(TRUE, "NSP", "Success", 1, "Program",
        << NCAEntry("Application", "Program", 1, "/games/d.nsp#program"),
           NCAEntry("Application", "Control", 1, "/games/d.nsp#control") >>)) @@
    ("/games/notes.txt" :> Info(FALSE, "Unknown", "Error", 0, "Program", <<>>)) @@
    ("/games/sub/main" :> Info(TRUE, "DeconstructedRomDirectory", "Success", 2, "Program", <<>>)) @@
    ("/games/sub/e.XCI" :> Info(TRUE, "XCI", "Success", 2, "Program",
        << NCAEntry("Application", "Program", 2, "/games/sub/e.XCI#program") >>)) @@
    ("/games/sub/deep/MAIN" :> Info(TRUE, "DeconstructedRomDirectory", "Success", 5, "Program", <<>>)) @@
    ("/games/sub/deep/f.nca" :> Info(TRUE, "NCA", "Success", 3, "Control", <<>>)) @@
    ("nand/1.program" :> Info(TRUE, "NCA", "Success", 1, "Program", <<>>)) @@
    ("nand/1.control" :> Info(TRUE, "NCA", "Success", 1, "Control", <<>>)) @@
    ("sd/1.program" :> Info(TRUE, "NCA", "Success", 1, "Program", <<>>)) @@
    ("sd/2.program" :> Info(TRUE, "NCA", "Success", 2, "Program", <<>>)) @@
    ("sd/4.program" :> Info(FALSE, "Unknown", "Error", 0, "Program", <<>>))

-----------------------------------------------------------------------------
(* File-name tests of the walk. *)

\* QString comparison with Qt::CaseInsensitive, over the suffixes of the model.
ToLower(s) ==
    CASE s = "NCA" -> "nca"
      [] s = "NRO" -> "nro"
      [] s = "XCI" -> "xci"
      [] s = "NSP" -> "nsp"
      [] s = "NSO" -> "nso"
      [] OTHER -> s

supported_file_extensions == {"nso", "nro", "nca", "xci", "nsp"}

\* The suffix test done case-sensitively.
HasSupportedFileExtension_CaseSensitive(vn) == vn.suffix \in supported_file_extensions

HasSupportedFileExtension(vn) == ToLower(vn.suffix) \in supported_file_extensions

IsExtractedNCAMain(vn) == FileName(vn) = "main"

-----------------------------------------------------------------------------
(* Content providers.  A provider maps a key <<title_id, type>> to an entry. *)

\* Slots of the union, highest precedence first.
Slots == << "SysNAND", "UserNAND", "SDMC", "FrontendManual" >>

PEntry(tt, f) == [title_type |-> tt, file |-> f]

Key(tid, cr) == <<tid, cr>>

InstalledChoices ==
    { [s \in {"SysNAND", "UserNAND", "SDMC"} |-> EmptyMap],
      [s \in {"SysNAND", "UserNAND", "SDMC"} |->
          CASE s = "SysNAND" -> EmptyMap
            [] s = "UserNAND" ->
                 (Key(1, "Program") :> PEntry("Application", "nand/1.program")) @@
                 (Key(1, "Control") :> PEntry("Application", "nand/1.control"))
            [] s = "SDMC" ->
                 (Key(1, "Program") :> PEntry("Application", "sd/1.program")) @@
                 (Key(4, "Program") :> PEntry("Application", "sd/4.program"))],
      [s \in {"SysNAND", "UserNAND", "SDMC"} |->
          CASE s = "SysNAND" -> EmptyMap
            [] s = "UserNAND" -> EmptyMap
            [] s = "SDMC" ->
                 (Key(1, "Program") :> PEntry("Application", "sd/1.program")) @@
                 (Key(2, "Program") :> PEntry("Application", "sd/2.program"))] }

\* The member providers of the union, by slot.
Providers(man, inst) ==
    [s \in {"SysNAND", "UserNAND", "SDMC", "FrontendManual"} |->
        IF s = "FrontendManual" THEN man ELSE inst[s]]

AllKeys(provs) == UNION {DOMAIN provs[s] : s \in DOMAIN provs}

\* ManualContentProvider::AddEntry
AddEntry(man, e) == (Key(e.title_id, e.type) :> PEntry(e.title_type, e.file)) @@ man

\* ManualContentProvider::ClearAllEntries
ClearAllEntries(man) == EmptyMap

NotFound == "NotFound"

\* ContentProviderUnion::GetEntry / GetEntryUnparsed: the first slot, in slot
\* order, that holds the key.
RECURSIVE GetEntryFrom(_, _, _)
GetEntryFrom(provs, slots, key) ==
    IF slots = <<>> THEN NotFound
    ELSE IF key \in DOMAIN provs[Head(slots)] THEN provs[Head(slots)][key].file
    ELSE GetEntryFrom(provs, Tail(slots), key)

GetEntry(provs, key) == GetEntryFrom(provs, Slots, key)

CRRank(cr) == CASE cr = "Program" -> 0 [] cr = "Control" -> 1 [] OTHER -> 2

KeyLess(a, b) == a[1] < b[1] \/ (a[1] = b[1] /\ CRRank(a[2]) < CRRank(b[2]))

\* The keys of a provider in its iteration order.
RECURSIVE KeySeq(_)
KeySeq(S) ==
    IF S = {} THEN <<>>
    ELSE LET m == CHOOSE k \in S : \A o \in S \ {k} : KeyLess(k, o)
         IN <<m>> \o KeySeq(S \ {m})

RECURSIVE ListSlot(_, _, _, _, _)
ListSlot(prov, slot, keys, title_type, type) ==
    IF keys = <<>> THEN <<>>
    ELSE LET k == Head(keys)
             rest == ListSlot(prov, slot, Tail(keys), title_type, type)
         IN IF prov[k].title_type = title_type /\ k[2] = type
            THEN << [slot |-> slot, title_id |-> k[1], type |-> k[2]] >> \o rest
            ELSE rest

\* ContentProviderUnion::ListEntriesFilterOrigin(std::nullopt, title_type, type)
RECURSIVE ListEntriesFrom(_, _, _, _)
ListEntriesFrom(provs, slots, title_type, type) ==
    IF slots = <<>> THEN <<>>
    ELSE LET s == Head(slots)
         IN ListSlot(provs[s], s, KeySeq(DOMAIN provs[s]), title_type, type)
            \o ListEntriesFrom(provs, Tail(slots), title_type, type)

ListEntriesFilterOrigin(provs, title_type, type) ==
    ListEntriesFrom(provs, Slots, title_type, type)

-----------------------------------------------------------------------------
(* The worker: GameListWorker::run, ScanFileSystem, AddTitlesToGameList,   *)
(* Cancel.                                                                 *)

Union == Providers(manual, installed)

Frame(d, r) == [dir |-> d, idx |-> 1, recursion |-> r]

\* One thing the run did: ev is what, src the phase of run() it happened in,
\* entry the directory entry whose callback did it, path the file concerned,
\* recv whether a receiver was still connected.
Ev(ev, entry, path, key, aux) ==
    [ev |-> ev, src |-> pc, entry |-> entry, path |-> path, key |-> key, aux |-> aux,
     recv |-> connected]

RecursionLimit(deep) == IF deep THEN DeepScanLimit ELSE 0

\* The callback without its stop check.
StopRequested_Ignored(stop) == FALSE

\* The stop check that opens the callback.
StopRequested(stop) == stop

\* The early returns with the show_unknown test left out.
NoEntryFor_LoaderOnly(info, su) == ~info.loader

\* The callback's early returns after GetLoader and GetFileType.
NoEntryFor(info, su) ==
    \/ ~info.loader
    \/ (info.file_type \in {"Unknown", "Error"} /\ ~su)

\* The AddEntry calls of the FillManualContentProvider branch for one file.
FillCalls(p) ==
    LET i == FileInfo[p]
    IN IF i.res2 = "Success" /\ i.file_type = "NCA"
       THEN << NCAEntry("Application", i.cr_type, i.program_id, p) >>
       ELSE IF i.res2 = "Success" /\ i.file_type \in {"XCI", "NSP"}
       THEN i.ncas
       ELSE <<>>

RECURSIVE AddAll(_, _)
AddAll(man, calls) ==
    IF calls = <<>> THEN man ELSE AddAll(AddEntry(man, Head(calls)), Tail(calls))

RECURSIVE AddAbsent(_, _)
AddAbsent(man, calls) ==
    IF calls = <<>> THEN man
    ELSE IF Key(Head(calls).title_id, Head(calls).type) \in DOMAIN man
    THEN AddAbsent(man, Tail(calls))
    ELSE AddAbsent(AddEntry(man, Head(calls)), Tail(calls))

\* The fill branch registering a file only under keys not yet registered.
FillProvider_KeepFirst(man, p) == AddAbsent(man, FillCalls(p))

\* The provider after the fill branch has handled one file.
FillProvider(man, p) == AddAll(man, FillCalls(p))

AddEvents(p, calls) ==
    [n \in 1..Len(calls) |->
        Ev("AddEntry", p, calls[n].file, Key(calls[n].title_id, calls[n].type), "")]

\* run() without its ClearAllEntries call.
RunClear_Skipped(man) == man

\* A clear that drops the Program entries only.
RunClear_ProgramsOnly(man) == [k \in {x \in DOMAIN man : x[2] # "Program"} |-> man[k]]

\* The entries ClearAllEntries leaves at the start of run().
RunClear(man) == ClearAllEntries(man)

\* The GameListWorker constructor; the worker then waits to be run.
Construct(d, ds, su) ==
    /\ pc \in {"idle", "done"}
    /\ runs < MaxRuns
    /\ pc' = "queued"
    /\ dir_path' = d
    /\ deep_scan' = ds
    /\ show_unknown' = su
    /\ stop_processing' = FALSE
    /\ connected' = TRUE
    /\ watch_list' = <<>>
    /\ stack' = <<>>
    /\ cur' = <<>>
    /\ installed_games' = <<>>
    /\ gi' = 1
    /\ trace' = <<>>
    /\ preClear' = {}
    /\ runs' = runs + 1
    /\ prev' = IF pc = "done" /\ ~stop_processing
               THEN << [dir_path |-> dir_path, deep_scan |-> deep_scan,
                        show_unknown |-> show_unknown, manual |-> manual] >>
               ELSE <<>>
    /\ UNCHANGED <<manual, installed, saveVars>>

\* A run() that leaves the stop flag as it finds it.
StopOnEntry_Sticky(stop) == stop

\* The stop flag after the first statement of run().
StopOnEntry(stop) == FALSE

\* A descent that does not record the directory.
Watch_Skipped(wl, physical_name) == wl

\* watch_list.append(physical_name) of the recursive descent.
Watch(wl, physical_name) == Append(wl, physical_name)

\* run(), up to the first ScanFileSystem call.
RunBegin ==
    /\ pc = "queued"
    /\ stop_processing' = StopOnEntry(stop_processing)
    /\ watch_list' = Append(watch_list, dir_path)
    /\ preClear' = {k \in AllKeys(Union) : GetEntry(Union, k) # NotFound}
    /\ manual' = RunClear(manual)
    /\ trace' = trace \o << Ev("Run", "", dir_path, <<>>, ""), Ev("Clear", "", "", <<>>, "") >>
    /\ stack' = << Frame(dir_path, RecursionLimit(deep_scan)) >>
    /\ pc' = "fill"
    /\ UNCHANGED <<dir_path, deep_scan, show_unknown, connected, installed, cur,
                   installed_games, gi, runs, prev, saveVars>>

\* ForeachDirectoryEntry hands the next entry to the callback, which checks
\* the stop flag first; a false return breaks the loop of this directory.
CallbackCheck ==
    /\ pc \in {"fill", "populate"}
    /\ stack # <<>>
    /\ cur = <<>>
    /\ LET f == stack[Len(stack)]
       IN /\ f.idx <= Len(DirEntries[f.dir])
          /\ IF StopRequested(stop_processing)
             THEN /\ stack' = SubSeq(stack, 1, Len(stack) - 1)
                  /\ cur' = cur
             ELSE /\ stack' = [stack EXCEPT ![Len(stack)].idx = @ + 1]
                  /\ cur' = << [dir |-> f.dir, vn |-> DirEntries[f.dir][f.idx],
                                recursion |-> f.recursion] >>
    /\ UNCHANGED <<pc, dir_path, deep_scan, show_unknown, stop_processing, connected,
                   watch_list, manual, installed, installed_games, gi, trace,
                   preClear, runs, prev, saveVars>>

\* The target test with its branches exchanged.
FillsProvider_Swapped(phase) == phase # "fill"

\* Whether the walk of this phase has target FillManualContentProvider.
FillsProvider(phase) == phase = "fill"

\* A descent that also happens when the recursion budget is used up.
Descends_OffByOne(is_dir, recursion) == is_dir /\ recursion >= 0

\* Whether the callback descends into an entry.
Descends(is_dir, recursion) == is_dir /\ recursion > 0

\* The rest of the callback for the entry that passed the stop check.
Callback ==
    /\ pc \in {"fill", "populate"}
    /\ cur # <<>>
    /\ cur' = <<>>
    /\ LET c == cur[1]
           physical_name == c.dir \o DIR_SEP \o FileName(c.vn)
           is_dir == IsDirectory(physical_name)
       IN IF ~is_dir /\ (HasSupportedFileExtension(c.vn) \/ IsExtractedNCAMain(c.vn))
          THEN /\ UNCHANGED <<stack, watch_list>>
               /\ IF NoEntryFor(FileInfo[physical_name], show_unknown)
                  THEN /\ trace' = Append(trace, Ev("Open", physical_name, physical_name, <<>>, ""))
                       /\ UNCHANGED manual
                  ELSE IF FillsProvider(pc)
                  THEN /\ manual' = FillProvider(manual, physical_name)
                       /\ trace' = Append(trace, Ev("Open", physical_name, physical_name, <<>>, ""))
                                   \o AddEvents(physical_name, FillCalls(physical_name))
                  ELSE /\ trace' = trace \o
                              << Ev("Open", physical_name, physical_name, <<>>, ""),
                                 Ev("EntryReady", physical_name, physical_name, <<>>, "") >>
                       /\ UNCHANGED manual
          ELSE IF Descends(is_dir, c.recursion)
          THEN /\ watch_list' = Watch(watch_list, physical_name)
               /\ stack' = Append(stack, Frame(physical_name, c.recursion - 1))
               /\ trace' = Append(trace, Ev("Descend", physical_name, physical_name, <<>>, ""))
               /\ UNCHANGED manual
          ELSE UNCHANGED <<stack, watch_list, manual, trace>>
    /\ UNCHANGED <<pc, dir_path, deep_scan, show_unknown, stop_processing, connected,
                   installed, installed_games, gi, preClear, runs, prev, saveVars>>

\* ForeachDirectoryEntry has run out of entries: this ScanFileSystem returns.
ScanReturn ==
    /\ pc \in {"fill", "populate"}
    /\ stack # <<>>
    /\ cur = <<>>
    /\ stack[Len(stack)].idx > Len(DirEntries[stack[Len(stack)].dir])
    /\ stack' = SubSeq(stack, 1, Len(stack) - 1)
    /\ UNCHANGED <<pc, dir_path, deep_scan, show_unknown, stop_processing, connected,
                   watch_list, manual, installed, cur, installed_games, gi, trace,
                   preClear, runs, prev, saveVars>>

\* AddTitlesToGameList, up to its loop.
BeginTitles ==
    /\ pc = "fill"
    /\ stack = <<>>
    /\ cur = <<>>
    /\ installed_games' = ListEntriesFilterOrigin(Union, "Application", "Program")
    /\ gi' = 1
    /\ pc' = "titles"
    /\ UNCHANGED <<dir_path, deep_scan, show_unknown, stop_processing, connected,
                   watch_list, manual, installed, stack, cur, trace, preClear, runs, prev, saveVars>>

\* The file taken from the slot that listed the game instead of from the union.
TitleFile_OwnSlot(game, provs) == provs[game.slot][Key(game.title_id, game.type)].file

\* The file AddTitlesToGameList resolves for a listed game.
TitleFile(game, provs) == GetEntry(provs, Key(game.title_id, game.type))

\* The control NCA AddTitlesToGameList looks up for a listed game.
TitleControl(game, provs) == GetEntry(provs, Key(game.title_id, "Control"))

\* The loop body without the FrontendManual test.
TitleListed_ManualToo(game, provs) == FileInfo[TitleFile(game, provs)].loader

\* Whether one iteration of the loop of AddTitlesToGameList emits its entry.
TitleListed(game, provs) ==
    /\ game.slot # "FrontendManual"
    /\ FileInfo[TitleFile(game, provs)].loader

\* One iteration of the loop of AddTitlesToGameList.
TitleStep ==
    /\ pc = "titles"
    /\ gi <= Len(installed_games)
    /\ gi' = gi + 1
    /\ LET game == installed_games[gi]
       IN IF TitleListed(game, Union)
          THEN trace' = Append(trace, Ev("EntryReady", "", TitleFile(game, Union),
                                         Key(game.title_id, game.type),
                                         TitleControl(game, Union)))
          ELSE UNCHANGED trace
    /\ UNCHANGED <<pc, dir_path, deep_scan, show_unknown, stop_processing, connected,
                   watch_list, manual, installed, stack, cur, installed_games,
                   preClear, runs, prev, saveVars>>

\* AddTitlesToGameList returns and run() starts the populate pass.
EndTitles ==
    /\ pc = "titles"
    /\ gi > Len(installed_games)
    /\ stack' = << Frame(dir_path, RecursionLimit(deep_scan)) >>
    /\ pc' = "populate"
    /\ UNCHANGED <<dir_path, deep_scan, show_unknown, stop_processing, connected,
                   watch_list, manual, installed, cur, installed_games, gi, trace,
                   preClear, runs, prev, saveVars>>

\* A run() that returns without the signal once it was stopped.
EmitsFinished_UnlessStopped(stop) == ~stop

\* Whether run() emits Finished after the populate pass.
EmitsFinished(stop) == TRUE

\* The populate pass has returned: emit Finished(watch_list).
Finish ==
    /\ pc = "populate"
    /\ stack = <<>>
    /\ cur = <<>>
    /\ trace' = IF EmitsFinished(stop_processing)
                THEN Append(trace, Ev("Finished", "", "", watch_list, ""))
                ELSE trace
    /\ pc' = "done"
    /\ UNCHANGED <<dir_path, deep_scan, show_unknown, stop_processing, connected,
                   watch_list, manual, installed, stack, cur, installed_games, gi,
                   preClear, runs, prev, saveVars>>

\* GameListWorker::Cancel, called from the thread that owns the worker.
Cancel ==
    /\ pc \in {"queued", "fill", "titles", "populate"}
    /\ ~stop_processing
    /\ connected' = FALSE
    /\ stop_processing' = TRUE
    /\ trace' = Append(trace, Ev("Stop",
                                  IF cur = <<>> THEN ""
                                  ELSE cur[1].dir \o DIR_SEP \o FileName(cur[1].vn),
                                  "", <<>>, ""))
    /\ UNCHANGED <<pc, dir_path, deep_scan, show_unknown, watch_list, manual,
                   installed, stack, cur, installed_games, gi, preClear, runs, prev, saveVars>>

Init ==
    /\ pc = "idle"
    /\ dir_path = ""
    /\ deep_scan = FALSE
    /\ show_unknown = FALSE
    /\ stop_processing = FALSE
    /\ connected = FALSE
    /\ watch_list = <<>>
    /\ manual = EmptyMap
    /\ installed \in InstalledChoices
    /\ stack = <<>>
    /\ cur = <<>>
    /\ installed_games = <<>>
    /\ gi = 1
    /\ trace = <<>>
    /\ preClear = {}
    /\ runs = 0
    /\ prev = <<>>
    /\ program_id = <<0, 0, 0, 0>>
    /\ dirs = {"/"}
    /\ last = <<>>

Next ==
    \/ \E d \in Roots, ds \in BOOLEAN, su \in BOOLEAN : Construct(d, ds, su)
    \/ RunBegin
    \/ CallbackCheck
    \/ Callback
    \/ ScanReturn
    \/ BeginTitles
    \/ TitleStep
    \/ EndTitles
    \/ Finish
    \/ Cancel

Spec == Init /\ [][Next]_vars

-----------------------------------------------------------------------------
(* Properties of the worker. *)

\* Positions in trace of a Cancel that set the flag while run() was executing.
InRunStops == {j \in 1..Len(trace) : trace[j].ev = "Stop" /\ trace[j].src # "queued"}

\* The run is over and no Cancel reached it.
Completed == pc = "done" /\ InRunStops = {}

Walking == pc \in {"fill", "populate"}

\* C1: once Cancel() has set the stop flag during run(), the only EntryReady
\* still emitted is the one for the directory entry that was in flight when
\* the flag was set, in whichever phase of run() the flag was set.
C1_NoEntryReadyAfterStop ==
    \A j \in InRunStops : \A i \in (j + 1)..Len(trace) :
        trace[i].ev = "EntryReady" =>
            (trace[j].entry # "" /\ trace[i].entry = trace[j].entry)

C2_OnlyInFlight ==
    \A j \in InRunStops : \A i \in (j + 1)..Len(trace) :
        trace[i].ev \in {"Open", "AddEntry", "Descend"} =>
            (trace[j].entry # "" /\ trace[i].entry = trace[j].entry)

C2_Unwinds ==
    (Walking /\ stop_processing /\ cur = <<>> /\ stack # <<>>)
        => (Len(stack') < Len(stack) /\ trace' = trace /\ manual' = manual)

\* C2: once the stop flag is set during a walk, every file opened, every
\* AddEntry call and every descent that still happens belongs to the entry
\* that was in flight, and from then on every step of the walk returns from
\* one level of the recursion, touching nothing else.
C2_WalkStopsAfterFlag == [](C2_OnlyInFlight) /\ [][C2_Unwinds]_vars

\* The flag was set during the fill pass while the callback for /games/sub
\* was in flight; the descent still happened, nothing in it was processed,
\* and the whole pass has returned.
C2_Witness ==
    /\ pc = "titles"
    /\ \E j \in InRunStops :
          /\ trace[j].src = "fill"
          /\ trace[j].entry = "/games/sub"
          /\ \E i \in (j + 1)..Len(trace) : trace[i].ev = "Descend"
          /\ \E i \in 1..(j - 1) : trace[i].ev = "AddEntry"

\* The directory entries a walk from d with recursion limit r hands to the callback.
RECURSIVE WalkedEntries(_, _)
WalkedEntries(d, r) ==
    LET here == {[dir |-> d, vn |-> DirEntries[d][n]] : n \in 1..Len(DirEntries[d])}
        subs == {e.dir \o DIR_SEP \o FileName(e.vn) : e \in here} \cap DOMAIN DirEntries
    IN here \cup (IF r > 0 THEN UNION {WalkedEntries(sd, r - 1) : sd \in subs} ELSE {})

WalkedFiles ==
    {e \in WalkedEntries(dir_path, RecursionLimit(deep_scan)) :
        ~IsDirectory(e.dir \o DIR_SEP \o FileName(e.vn))}

PopulateCount(p) ==
    Cardinality({i \in 1..Len(trace) :
        trace[i].ev = "EntryReady" /\ trace[i].src = "populate" /\ trace[i].path = p})

SupportedName(vn) == HasSupportedFileExtension(vn) \/ IsExtractedNCAMain(vn)

TypeDetected(info) == info.loader /\ info.file_type \notin {"Unknown", "Error"}

\* C3 as stated: whatever show_unknown is, a complete populate scan emits one
\* EntryReady for each valid file and none for a file whose container type
\* cannot be detected.
C3_NoneForUndetected ==
    Completed =>
        \A e \in WalkedFiles :
            LET p == e.dir \o DIR_SEP \o FileName(e.vn)
            IN /\ (SupportedName(e.vn) /\ TypeDetected(FileInfo[p])) => PopulateCount(p) = 1
               /\ ~TypeDetected(FileInfo[p]) => PopulateCount(p) = 0

\* C3 amended: a complete populate scan emits exactly one EntryReady for each
\* walked file with a supported name for which a loader is obtained and whose
\* type is detected or show_unknown is set, and none for any other file; a
\* skipped file does not keep later entries from being processed.
C3_OnePerListedFile ==
    Completed =>
        \A e \in WalkedFiles :
            LET p == e.dir \o DIR_SEP \o FileName(e.vn)
                i == FileInfo[p]
            IN PopulateCount(p) =
                 IF /\ SupportedName(e.vn)
                    /\ i.loader
                    /\ (i.file_type \notin {"Unknown", "Error"} \/ show_unknown)
                 THEN 1 ELSE 0

\* A complete scan of /games with show_unknown set: nothing for bad.nsp, one
\* entry for the file of unknown type and one for d.nsp, which follows both.
C3_Witness ==
    /\ Completed
    /\ dir_path = "/games"
    /\ show_unknown
    /\ PopulateCount("/games/bad.nsp") = 0
    /\ PopulateCount("/games/unk.NRO") = 1
    /\ PopulateCount("/games/d.nsp") = 1

AddIdx == {i \in 1..Len(trace) : trace[i].ev = "AddEntry"}

\* C4: after a complete, uncancelled run the ManualContentProvider holds
\* exactly the keys the fill pass of that run registered, each with a file
\* that run registered for it; nothing of an earlier run survives.
C4_OnlyLatestRun ==
    Completed =>
        /\ DOMAIN manual = {trace[i].key : i \in AddIdx}
        /\ \A k \in DOMAIN manual :
              manual[k].file \in {trace[i].path : i \in {n \in AddIdx : trace[n].key = k}}

\* A second complete run, over /games/sub without deep scan and with no
\* installed content: the control entry of title 1 that the first run had
\* registered was resolvable before the clear and is gone.
C4_Witness ==
    /\ Completed
    /\ runs = 2
    /\ dir_path = "/games/sub"
    /\ Key(1, "Control") \in preClear
    /\ Key(1, "Control") \notin DOMAIN manual
    /\ Key(2, "Program") \in DOMAIN manual

LastAdd(k) ==
    CHOOSE i \in AddIdx : trace[i].key = k /\ \A n \in AddIdx : trace[n].key = k => n <= i

\* C5: a key the fill pass registered resolves in the provider to the file
\* registered last in walk order, and a complete run over the same directory
\* with the same settings as the complete run before it leaves the same
\* mapping.
C5_LastWriteWins ==
    /\ \A k \in {trace[i].key : i \in AddIdx} :
          k \in DOMAIN manual /\ manual[k].file = trace[LastAdd(k)].path
    /\ (Completed /\ prev # <<>>
          /\ prev[1].dir_path = dir_path /\ prev[1].deep_scan = deep_scan
          /\ prev[1].show_unknown = show_unknown)
         => manual = prev[1].manual

\* The second of two complete scans of /games: a.nca and d.nsp both
\* registered <<1, Program>>, and the provider holds the later one.
C5_Witness ==
    /\ Completed
    /\ prev # <<>>
    /\ prev[1].dir_path = dir_path /\ prev[1].deep_scan = deep_scan
    /\ prev[1].show_unknown = show_unknown
    /\ \E i, n \in AddIdx :
          /\ i < n
          /\ trace[i].key = Key(1, "Program") /\ trace[i].path = "/games/a.nca"
          /\ trace[n].key = Key(1, "Program") /\ trace[n].path = "/games/d.nsp#program"
    /\ manual[Key(1, "Program")].file = "/games/d.nsp#program"

Holders(k) == {n \in 1..Len(Slots) : k \in DOMAIN Union[Slots[n]]}

\* The entry of the highest-precedence slot holding k, or NotFound.
Resolved(k) ==
    IF Holders(k) = {} THEN NotFound
    ELSE Union[Slots[CHOOSE n \in Holders(k) : \A m \in Holders(k) : n <= m]][k].file

ProbeKeys == AllKeys(Union) \cup {Key(9, "Program")}

\* C6: GetEntry returns the entry of the highest-precedence slot holding the
\* key and NotFound only when no slot holds it, and the file and the control
\* NCA that AddTitlesToGameList resolved for each listed game are those.
C6_UnionPrecedence ==
    /\ \A k \in ProbeKeys : GetEntry(Union, k) = Resolved(k)
    /\ \A i \in 1..Len(trace) :
          (trace[i].ev = "EntryReady" /\ trace[i].src = "titles") =>
              /\ trace[i].path = Resolved(trace[i].key)
              /\ trace[i].aux = Resolved(Key(trace[i].key[1], "Control"))

\* <<1, Program>> is held by UserNAND, by SDMC and, inserted last, by the
\* manual provider; the game listed from SDMC was resolved to UserNAND's file.
C6_Witness ==
    /\ pc = "populate"
    /\ Holders(Key(1, "Program")) = {2, 3, 4}
    /\ Cardinality({i \in 1..Len(trace) :
           /\ trace[i].ev = "EntryReady" /\ trace[i].src = "titles"
           /\ trace[i].key = Key(1, "Program")
           /\ trace[i].path = "nand/1.program"}) = 2

\* The state ClearAllEntries leaves, before anything else of run() happens.
JustCleared == pc = "fill" /\ trace # <<>> /\ trace[Len(trace)].ev = "Clear"

\* C7 as stated: after ClearAllEntries, GetEntry returns NotFound for every
\* key the union resolved before the clear.
C7_AllNotFoundAfterClear ==
    JustCleared => \A k \in preClear : GetEntry(Union, k) = NotFound

\* C7 amended: after ClearAllEntries the manual provider holds no entry, and
\* a key the union resolved before the clear is NotFound unless another slot
\* holds it, whose entry GetEntry then returns.
C7_ManualNotFoundAfterClear ==
    JustCleared =>
        /\ DOMAIN manual = {}
        /\ \A k \in preClear :
              IF \E s \in DOMAIN installed : k \in DOMAIN installed[s]
              THEN GetEntry(Union, k) = GetEntry(Providers(EmptyMap, installed), k)
                   /\ GetEntry(Union, k) # NotFound
              ELSE GetEntry(Union, k) = NotFound

\* The second run has just cleared: a key only the manual provider held is
\* now NotFound.
C7_Witness ==
    /\ JustCleared
    /\ \E k \in preClear :
          /\ \A s \in DOMAIN installed : k \notin DOMAIN installed[s]
          /\ GetEntry(Union, k) = NotFound

-----------------------------------------------------------------------------
(* The save-data factory: SaveData_Factory::Open, Format, GetFormatInfo,   *)
(* GetFullPath.                                                            *)

\* SaveData_Factory::nand_directory, as a string and cut after each separator.
nand_directory == "/data/"
NandSegments == << "/", "data/" >>

\* A u64 title id is four 16-bit limbs, most significant first.
TitleIds == { <<256, 0, 1, 0>>, <<256, 43981, 0, 61455>>, <<0, 0, 0, 0>> }

\* The digits of a lower-case conversion (%x).
HexDigits_Lower == << "0", "1", "2", "3", "4", "5", "6", "7",
                      "8", "9", "a", "b", "c", "d", "e", "f" >>

HexDigits == << "0", "1", "2", "3", "4", "5", "6", "7",
                "8", "9", "A", "B", "C", "D", "E", "F" >>

\* One 16-bit limb as four upper-case hex digits.
Hex4(n) ==
    HexDigits[(n \div 4096) + 1] \o HexDigits[((n \div 256) % 16) + 1]
        \o HexDigits[((n \div 16) % 16) + 1] \o HexDigits[(n % 16) + 1]

\* printf "%016llX" of a u64.
Format016X(t) == Hex4(t[1]) \o Hex4(t[2]) \o Hex4(t[3]) \o Hex4(t[4])

\* printf "%08X" of a u32, two limbs.
Format08X(u) == Hex4(u[1]) \o Hex4(u[2])

\* The user index GetFullPath uses.
user == <<0, 0>>

\* SaveData_Factory::GetFullPath for current title t.
GetFullPath(t) ==
    nand_directory \o "save/" \o Format016X(t) \o "/" \o Format08X(user) \o "/"

\* The path built from a title id other than the current one.
PathSegments_Stale(t) ==
    NandSegments \o << "save/", Format016X(<<0, 0, 0, 0>>) \o "/", Format08X(user) \o "/" >>

\* The same path cut after each separator, as CreateFullPath walks it.
PathSegments(t) ==
    NandSegments \o << "save/", Format016X(t) \o "/", Format08X(user) \o "/" >>

RECURSIVE Concat(_)
Concat(segs) == IF segs = <<>> THEN "" ELSE Head(segs) \o Concat(Tail(segs))

PathPrefix(segs, n) == Concat(SubSeq(segs, 1, n))

\* FileUtil::CreateFullPath: true at once when the path exists; otherwise it
\* creates each missing prefix in turn and stops, returning false, at the
\* prefix numbered fail, whose creation fails (fail = 0: none fails).
RECURSIVE CreateFrom(_, _, _, _)
CreateFrom(ds, segs, n, fail) ==
    IF n > Len(segs) THEN [ok |-> TRUE, dirs |-> ds]
    ELSE IF PathPrefix(segs, n) \in ds THEN CreateFrom(ds, segs, n + 1, fail)
    ELSE IF fail = n THEN [ok |-> FALSE, dirs |-> ds]
    ELSE CreateFrom(ds \cup {PathPrefix(segs, n)}, segs, n + 1, fail)

CreateFullPath(ds, segs, fail) ==
    IF Concat(segs) \in ds THEN [ok |-> TRUE, dirs |-> ds]
    ELSE CreateFrom(ds, segs, 1, fail)

RESULT_SUCCESS == 0

\* The ResultCode Open returns for a missing save directory.
OpenMissingCode == -1

\* The ResultCode Format returns when CreateFullPath fails.
FormatFailedCode == -1

\* The ResultCode GetFormatInfo returns.
GetFormatInfoCode == -1

\* The ResultCode of Open, given whether the save directory exists.
OpenResult_Always(is_directory) == RESULT_SUCCESS

\* Open with its directory test inverted.
OpenResult_Inverted(is_directory) == IF is_directory THEN OpenMissingCode ELSE RESULT_SUCCESS

OpenResult(is_directory) == IF ~is_directory THEN OpenMissingCode ELSE RESULT_SUCCESS

\* Format with the test of CreateFullPath's result inverted.
FormatResult_Inverted(created) == IF created THEN FormatFailedCode ELSE RESULT_SUCCESS

\* The ResultCode of Format, given what CreateFullPath returned.
FormatResult(created) == IF ~created THEN FormatFailedCode ELSE RESULT_SUCCESS

\* A call of the factory and its outcome: the title that was current, the
\* ResultCode, the directory of the archive Open returned, the prefix whose
\* creation failed (0: none) and the directories that existed before the call.
Call(op, code, archive, fail) ==
    << [op |-> op, title |-> program_id, code |-> code, archive |-> archive,
        fail |-> fail, before |-> dirs] >>

\* An Open that creates the save directory it does not find.
OpenDirs_Creating(ds, t) == ds \cup {PathPrefix(PathSegments(t), n) : n \in 1..Len(PathSegments(t))}

\* The directories Open leaves.
OpenDirs(ds, t) == ds

Open ==
    /\ LET save_directory == GetFullPath(program_id)
           code == OpenResult(save_directory \in dirs)
       IN last' = Call("Open", code,
                       IF code = RESULT_SUCCESS THEN save_directory ELSE "", 0)
    /\ dirs' = OpenDirs(dirs, program_id)
    /\ UNCHANGED <<program_id, workerVars>>

Format(fail) ==
    /\ LET r == CreateFullPath(dirs, PathSegments(program_id), fail)
       IN /\ dirs' = r.dirs
          /\ last' = Call("Format", FormatResult(r.ok), "", IF r.ok THEN 0 ELSE fail)
    /\ UNCHANGED <<program_id, workerVars>>

GetFormatInfo ==
    /\ last' = Call("GetFormatInfo", GetFormatInfoCode, "", 0)
    /\ UNCHANGED <<program_id, dirs, workerVars>>

\* Another process becomes Kernel::g_current_process.
SetCurrentProcess(t) ==
    /\ t # program_id
    /\ program_id' = t
    /\ UNCHANGED <<dirs, last, workerVars>>

InitSave ==
    /\ pc = "idle"
    /\ dir_path = ""
    /\ deep_scan = FALSE
    /\ show_unknown = FALSE
    /\ stop_processing = FALSE
    /\ connected = FALSE
    /\ watch_list = <<>>
    /\ manual = EmptyMap
    /\ installed = [s \in {"SysNAND", "UserNAND", "SDMC"} |-> EmptyMap]
    /\ stack = <<>>
    /\ cur = <<>>
    /\ installed_games = <<>>
    /\ gi = 1
    /\ trace = <<>>
    /\ preClear = {}
    /\ runs = 0
    /\ prev = <<>>
    /\ program_id \in TitleIds
    /\ dirs \in { {"/"}, {"/", "/data/"} }
    /\ last = <<>>

NextSave ==
    \/ Open
    \/ \E fail \in 0..Len(PathSegments(program_id)) : Format(fail)
    \/ GetFormatInfo
    \/ \E t \in TitleIds : SetCurrentProcess(t)

SpecSave == InitSave /\ [][NextSave]_vars

-----------------------------------------------------------------------------
(* Properties of the save-data factory. *)

SaveDirExists(ds, t) == GetFullPath(t) \in ds

\* C8: Open returns an error whenever the save directory of the current
\* title does not exist, and leaves the set of existing directories as it
\* was; it succeeds only on a directory that was already there.
C8_OpenNeverCreates ==
    (last # <<>> /\ last[1].op = "Open") =>
        /\ dirs = last[1].before
        /\ ~SaveDirExists(last[1].before, last[1].title) => last[1].code # RESULT_SUCCESS
        /\ last[1].code = RESULT_SUCCESS =>
              (SaveDirExists(last[1].before, last[1].title)
                 /\ last[1].archive = GetFullPath(last[1].title))

\* Open for a title whose save directory was never created: it failed, and
\* the directory still does not exist although another title's does.
C8_Witness ==
    /\ last # <<>>
    /\ last[1].op = "Open"
    /\ last[1].code # RESULT_SUCCESS
    /\ ~SaveDirExists(dirs, program_id)
    /\ \E t \in TitleIds : SaveDirExists(dirs, t)

\* C9: a Format during which no directory creation fails returns success and
\* leaves the save directory and every directory above it in existence, and
\* a Format for a title whose save directory already exists returns success
\* and changes nothing.
C9_FormatIdempotent ==
    (last # <<>> /\ last[1].op = "Format") =>
        /\ last[1].fail = 0 <=> last[1].code = RESULT_SUCCESS
        /\ last[1].code = RESULT_SUCCESS =>
              \A n \in 1..Len(PathSegments(last[1].title)) :
                  PathPrefix(PathSegments(last[1].title), n) \in dirs
        /\ SaveDirExists(last[1].before, last[1].title) =>
              (last[1].code = RESULT_SUCCESS /\ dirs = last[1].before)
        /\ last[1].before \subseteq dirs

\* A repeated Format: the save directory existed before the call, the call
\* succeeded and the directories are as before.
C9_Witness ==
    /\ last # <<>>
    /\ last[1].op = "Format"
    /\ SaveDirExists(last[1].before, last[1].title)
    /\ last[1].code = RESULT_SUCCESS
    /\ dirs = last[1].before

\* C10: GetFormatInfo always fails and changes no state, and its error code
\* differs from the one Open returns for a missing directory and from the
\* one a failed Format returns.
C10_DistinctNotImplemented ==
    (last # <<>> /\ last[1].op = "GetFormatInfo") =>
        /\ last[1].code # RESULT_SUCCESS
        /\ dirs = last[1].before
        /\ last[1].code # OpenMissingCode
        /\ last[1].code # FormatFailedCode

\* The save path written out for each title id of the model, root "/data/".
ExpectedPath(t) ==
    CASE t = <<256, 0, 1, 0>> -> "/data/save/0100000000010000/00000000/"
      [] t = <<256, 43981, 0, 61455>> -> "/data/save/0100ABCD0000F00F/00000000/"
      [] t = <<0, 0, 0, 0>> -> "/data/save/0000000000000000/00000000/"

\* C11: the save path is root + "save/" + the title id as 16 zero-padded
\* upper-case hex digits + "/" + user index 0 as 8 hex digits + "/": it is the
\* directory of the archive a successful Open returns, the directory a
\* successful Format leaves, and it depends on nothing but the title id.
C11_SavePath ==
    /\ (last # <<>> /\ last[1].op = "Open" /\ last[1].code = RESULT_SUCCESS)
          => last[1].archive = ExpectedPath(last[1].title)
    /\ (last # <<>> /\ last[1].op = "Format" /\ last[1].code = RESULT_SUCCESS)
          => ExpectedPath(last[1].title) \in dirs
    /\ GetFullPath(program_id) = ExpectedPath(program_id)
    /\ Concat(PathSegments(program_id)) = ExpectedPath(program_id)

\* Open succeeded for title 0x0100000000010000 and for the title with letter
\* digits the directory exists as well.
C11_Witness ==
    /\ last # <<>>
    /\ last[1].op = "Open"
    /\ last[1].title = <<256, 0, 1, 0>>
    /\ last[1].archive = "/data/save/0100000000010000/00000000/"
    /\ "/data/save/0100ABCD0000F00F/00000000/" \in dirs

-----------------------------------------------------------------------------
(* ScanFileSystem started with any recursion limit. *)

\* Largest recursion limit a walk is started with directly.
MaxLimit == 2

\* A ScanFileSystem(target, d, n) call about to run, for any target, root and
\* limit, in a worker after which one more worker may be constructed.
InitWalk ==
    /\ pc \in {"fill", "populate"}
    /\ dir_path \in Roots
    /\ deep_scan = FALSE
    /\ show_unknown \in BOOLEAN
    /\ stop_processing = FALSE
    /\ connected = TRUE
    /\ watch_list = << dir_path >>
    /\ manual = EmptyMap
    /\ installed = [s \in {"SysNAND", "UserNAND", "SDMC"} |-> EmptyMap]
    /\ \E n \in 0..MaxLimit : stack = << Frame(dir_path, n) >>
    /\ cur = <<>>
    /\ installed_games = <<>>
    /\ gi = 1
    /\ trace = <<>>
    /\ preClear = {}
    /\ runs = MaxRuns - 1
    /\ prev = <<>>
    /\ program_id = <<0, 0, 0, 0>>
    /\ dirs = {"/"}
    /\ last = <<>>

SpecWalk == InitWalk /\ [][Next]_vars

\* The directory that lists p.
AllPaths ==
    UNION {{d \o DIR_SEP \o FileName(DirEntries[d][n]) : n \in 1..Len(DirEntries[d])}
              : d \in DOMAIN DirEntries}

\* The directory each path of the tree is an entry of.
ParentTable ==
    [p \in AllPaths |->
        CHOOSE d \in DOMAIN DirEntries :
            \E n \in 1..Len(DirEntries[d]) : p = d \o DIR_SEP \o FileName(DirEntries[d][n])]

ParentOf(p) == ParentTable[p]

HasParent(p) == p \in AllPaths

\* Number of directory levels p lies below root; -1 when it is not below it.
RECURSIVE LevelsBelow(_, _)
LevelsBelow(root, p) ==
    IF ~HasParent(p) THEN -1
    ELSE IF ParentOf(p) = root THEN 0
    ELSE LET up == LevelsBelow(root, ParentOf(p)) IN IF up < 0 THEN -1 ELSE up + 1

\* The name each path of the tree ends in.
VNameTable ==
    [p \in AllPaths |->
        LET d == ParentOf(p)
        IN DirEntries[d][CHOOSE n \in 1..Len(DirEntries[d]) :
                            p = d \o DIR_SEP \o FileName(DirEntries[d][n])]]

VNameOf(p) == VNameTable[p]

\* The files of the current pass that were opened, and the directories entered.
PassPaths(ev) == {trace[i].path : i \in {n \in 1..Len(trace) : trace[n].ev = ev /\ trace[n].src = pc}}

\* The outermost ScanFileSystem of the current pass has handled its last entry.
WalkExhausted ==
    /\ Walking
    /\ Len(stack) = 1
    /\ cur = <<>>
    /\ stack[1].idx > Len(DirEntries[stack[1].dir])
    /\ InRunStops = {}

\* C12: a walk started with recursion limit N opens a file with a supported
\* name if and only if the file lies at most N directory levels below the
\* root, and enters a directory if and only if its entries do; with N = 0 it
\* enters none.  The walks run() starts have N = 256 with deep_scan and N = 0
\* without.
C12_DepthBound ==
    /\ WalkExhausted =>
          /\ PassPaths("Open") =
                {p \in AllPaths : /\ ~IsDirectory(p)
                                  /\ SupportedName(VNameOf(p))
                                  /\ LevelsBelow(stack[1].dir, p) >= 0
                                  /\ LevelsBelow(stack[1].dir, p) <= stack[1].recursion}
          /\ PassPaths("Descend") =
                {p \in AllPaths : /\ IsDirectory(p)
                                  /\ LevelsBelow(stack[1].dir, p) >= 0
                                  /\ LevelsBelow(stack[1].dir, p) + 1 <= stack[1].recursion}
    /\ (stack # <<>> /\ \E i \in 1..Len(trace) : trace[i].ev = "Run") =>
          /\ stack[1].dir = dir_path
          /\ stack[1].recursion = (IF deep_scan THEN 256 ELSE 0)

\* A walk of /games with limit 1 is through: the files of /games/sub were
\* opened, /games/sub/deep was not entered and f.nca not opened.
C12_Witness ==
    /\ WalkExhausted
    /\ stack[1].dir = "/games"
    /\ stack[1].recursion = 1
    /\ "/games/sub/e.XCI" \in PassPaths("Open")
    /\ "/games/sub/deep/f.nca" \notin PassPaths("Open")
    /\ PassPaths("Descend") = {"/games/sub"}

-----------------------------------------------------------------------------

\* The names the walk is to open, spelled out for the names of the model.
NamedForOpening(vn) ==
    \/ vn.suffix \in {"nca", "NCA", "nsp", "NSP", "xci", "XCI", "nro", "NRO", "nso", "NSO"}
    \/ (vn.stem = "main" /\ vn.suffix = "")

\* C13: a non-directory entry is opened exactly when its suffix is a
\* supported one in any letter case or its name is exactly "main"; AddEntry
\* and the populate pass's EntryReady happen only for an entry that was
\* opened, so any other file causes neither.
C13_OpenedIffSupportedName ==
    /\ \A i \in 1..Len(trace) :
          /\ trace[i].ev = "Open" =>
                (~IsDirectory(trace[i].path) /\ NamedForOpening(VNameOf(trace[i].path)))
          /\ (trace[i].ev = "AddEntry" \/ (trace[i].ev = "EntryReady" /\ trace[i].src = "populate"))
                => \E j \in 1..(i - 1) :
                      /\ trace[j].ev = "Open"
                      /\ trace[j].src = trace[i].src
                      /\ trace[j].entry = trace[i].entry
    /\ WalkExhausted =>
          \A e \in WalkedEntries(dir_path, stack[1].recursion) :
              LET p == e.dir \o DIR_SEP \o FileName(e.vn)
              IN (~IsDirectory(p) /\ NamedForOpening(e.vn)) => p \in PassPaths("Open")

\* A deep populate walk of /games is through: e.XCI, unk.NRO and main were
\* opened, notes.txt and MAIN were not, and MAIN got no entry.
C13_Witness ==
    /\ WalkExhausted
    /\ pc = "populate"
    /\ {"/games/sub/e.XCI", "/games/unk.NRO", "/games/sub/main", "/games/sub/deep/f.nca"}
          \subseteq PassPaths("Open")
    /\ "/games/notes.txt" \notin PassPaths("Open")
    /\ "/games/sub/deep/MAIN" \notin PassPaths("Open")
    /\ PopulateCount("/games/sub/deep/MAIN") = 0
    /\ PopulateCount("/games/sub/main") = 1

-----------------------------------------------------------------------------

\* The EntryReady notifications of AddTitlesToGameList, in order.
TitleEvents ==
    LET IsTitleEvent(e) == e.ev = "EntryReady" /\ e.src = "titles"
    IN SelectSeq(trace, IsTitleEvent)

\* The listed games AddTitlesToGameList is to emit an entry for, in order.
GamesToEmit(games) ==
    LET Emits(g) == /\ g.slot # "FrontendManual"
                    /\ FileInfo[Resolved(Key(g.title_id, g.type))].loader
    IN SelectSeq(games, Emits)

\* C14: for the listed games handled so far, AddTitlesToGameList has emitted
\* nothing for those of slot FrontendManual or without a loader and exactly
\* one EntryReady for each other one, in the order of the list.
C14_TitlesInListOrder ==
    pc \in {"titles", "populate", "done"} =>
        LET want == GamesToEmit(SubSeq(installed_games, 1, gi - 1))
        IN /\ Len(TitleEvents) = Len(want)
           /\ \A n \in 1..Len(want) :
                 TitleEvents[n].key = Key(want[n].title_id, want[n].type)
           /\ \A n \in 1..Len(installed_games) :
                 installed_games[n].type = "Program"

\* The loop is through a list with two games to emit, one without a loader
\* and one of the manual provider: two notifications, both for title 1.
C14_Witness ==
    /\ pc = "populate"
    /\ Len(installed_games) >= 4
    /\ \E n \in 1..Len(installed_games) : installed_games[n].slot = "FrontendManual"
    /\ \E n \in 1..Len(installed_games) :
          /\ installed_games[n].slot = "SDMC"
          /\ installed_games[n].title_id = 4
    /\ Len(TitleEvents) = 2
    /\ TitleEvents[1].key = Key(1, "Program")
    /\ TitleEvents[2].key = Key(1, "Program")

-----------------------------------------------------------------------------

C15_OpenFollowsExistence ==
    /\ (last # <<>> /\ last[1].op = "Format" /\ last[1].code = RESULT_SUCCESS)
          => SaveDirExists(dirs, last[1].title)
    /\ (last # <<>> /\ last[1].op = "Open")
          => (last[1].code = RESULT_SUCCESS <=> SaveDirExists(last[1].before, last[1].title))

C15_NothingRemoved == dirs \subseteq dirs'

\* C15: a successful Format leaves the save directory of the current title,
\* Open succeeds exactly when that directory exists, and no call of the
\* factory removes a directory, so Open for a formatted title keeps
\* succeeding whatever calls follow.
C15_OpenAfterFormat == [](C15_OpenFollowsExistence) /\ [][C15_NothingRemoved]_vars

\* Open succeeded for one title after the save directory of another had been
\* created as well.
C15_Witness ==
    /\ last # <<>>
    /\ last[1].op = "Open"
    /\ last[1].code = RESULT_SUCCESS
    /\ last[1].title = <<256, 43981, 0, 61455>>
    /\ SaveDirExists(dirs, <<0, 0, 0, 0>>)

C16_OpenFailsUnformatted ==
    (last # <<>> /\ last[1].op = "Open" /\ ExpectedPath(last[1].title) \notin last[1].before)
        => last[1].code # RESULT_SUCCESS

C16_CreatedByOwnFormat ==
    \A t \in TitleIds :
        (ExpectedPath(t) \notin dirs /\ ExpectedPath(t) \in dirs')
            => (program_id = t /\ last'[1].op = "Format" /\ last'[1].title = t)

\* C16: the save directory of a title comes into existence only by a Format
\* made while that title is current, and until then Open with that title
\* current fails, whatever was formatted for other titles.
C16_TitleIsolation == [](C16_OpenFailsUnformatted) /\ [][C16_CreatedByOwnFormat]_vars

\* Open failed with title 0x0100ABCD0000F00F current although the save
\* directory of title 0x0100000000010000 had been formatted.
C16_Witness ==
    /\ last # <<>>
    /\ last[1].op = "Open"
    /\ last[1].title = <<256, 43981, 0, 61455>>
    /\ last[1].code # RESULT_SUCCESS
    /\ "/data/save/0100000000010000/00000000/" \in dirs
    /\ "/data/save/0100ABCD0000F00F/00000000/" \notin dirs

-----------------------------------------------------------------------------

\* The place of an event in the order of a run; -1 for events the order does
\* not concern.
PhaseRank(e) ==
    CASE e.ev = "Clear" -> 0
      [] e.ev = "AddEntry" -> 1
      [] e.ev = "EntryReady" /\ e.src = "titles" -> 2
      [] e.ev = "EntryReady" /\ e.src # "titles" -> 3
      [] e.ev = "Finished" -> 4
      [] OTHER -> -1

\* C17: in the record of a run ClearAllEntries comes before every AddEntry,
\* every AddEntry before every EntryReady, and the EntryReady of installed
\* titles before those of the populate pass; AddEntry happens in the fill
\* pass only and EntryReady never in it.
C17_PhaseOrder ==
    /\ LET Ranked(e) == PhaseRank(e) >= 0
           rs == SelectSeq(trace, Ranked)
       IN \A n \in 1..(Len(rs) - 1) : PhaseRank(rs[n]) <= PhaseRank(rs[n + 1])
    /\ \A i \in 1..Len(trace) :
          /\ trace[i].ev = "AddEntry" => trace[i].src = "fill"
          /\ trace[i].ev = "EntryReady" => trace[i].src \in {"titles", "populate"}
          /\ trace[i].ev = "Clear" => i <= 3
    /\ (pc \in {"fill", "titles", "populate", "done"})
          => \E i \in 1..Len(trace) : trace[i].ev = "Clear"

\* A finished run that registered entries, listed an installed title and
\* listed files of the directory.
C17_Witness ==
    /\ pc = "done"
    /\ \E i \in 1..Len(trace) : trace[i].ev = "AddEntry"
    /\ \E i \in 1..Len(trace) : trace[i].ev = "EntryReady" /\ trace[i].src = "titles"
    /\ \E i \in 1..Len(trace) : trace[i].ev = "EntryReady" /\ trace[i].src = "populate"

-----------------------------------------------------------------------------
(* The worker under a thread pool that keeps running what it has started. *)

WorkerStep ==
    \/ RunBegin
    \/ CallbackCheck
    \/ Callback
    \/ ScanReturn
    \/ BeginTitles
    \/ TitleStep
    \/ EndTitles
    \/ Finish

SpecFair == Init /\ [][Next]_vars /\ WF_vars(WorkerStep)

FinishedIdx == {i \in 1..Len(trace) : trace[i].ev = "Finished"}

C18_FinishedOnceLast ==
    /\ Cardinality(FinishedIdx) <= 1
    /\ \A i \in FinishedIdx : i = Len(trace)
    /\ pc = "done" <=> FinishedIdx # {}

\* C18: every run that is queued reaches its end, with or without a Cancel
\* on the way; at the end, and only then, the record of the run holds
\* Finished, once and as its last event.
C18_RunTerminates == [](C18_FinishedOnceLast) /\ ((pc = "queued") ~> (pc = "done"))

\* A deep run that was cancelled in its fill pass has ended with Finished.
C18_Witness ==
    /\ pc = "done"
    /\ deep_scan
    /\ \E j \in InRunStops : trace[j].src = "fill"
    /\ trace[Len(trace)].ev = "Finished"

-----------------------------------------------------------------------------
(* Cancel() before run() has started. *)

QueuedStops == {j \in 1..Len(trace) : trace[j].ev = "Stop" /\ trace[j].src = "queued"}

\* The files of pass src that were opened.
OpenedIn(src) ==
    {trace[i].path : i \in {n \in 1..Len(trace) : trace[n].ev = "Open" /\ trace[n].src = src}}

FilesToOpen ==
    {e.dir \o DIR_SEP \o FileName(e.vn) : e \in {w \in WalkedFiles : SupportedName(w.vn)}}

\* C19: the flag set by a Cancel() that came before run() is cleared when
\* run() starts, so a run no later Cancel() reached has the flag clear and,
\* when it is over, has opened every file of both walks and emitted every
\* listed title; what remains of that Cancel() is that every event of the run
\* finds no receiver connected.
C19_CancelBeforeRunNotSticky ==
    /\ (pc \in {"fill", "titles", "populate", "done"} /\ InRunStops = {}) => ~stop_processing
    /\ (QueuedStops # {} /\ Completed) =>
          /\ OpenedIn("fill") = FilesToOpen
          /\ OpenedIn("populate") = FilesToOpen
          /\ \A e \in WalkedFiles :
                LET f == e.dir \o DIR_SEP \o FileName(e.vn)
                IN PopulateCount(f) =
                     IF SupportedName(e.vn) /\ ~NoEntryFor(FileInfo[f], show_unknown)
                     THEN 1 ELSE 0
          /\ Len(TitleEvents) = Len(GamesToEmit(installed_games))
          /\ gi = Len(installed_games) + 1
    /\ \A j \in QueuedStops :
          /\ ~connected
          /\ \A i \in (j + 1)..Len(trace) : ~trace[i].recv

\* A deep run cancelled while it was queued is over, with titles listed and
\* files of the subdirectories populated, all of it without a receiver.
C19_Witness ==
    /\ Completed
    /\ QueuedStops # {}
    /\ deep_scan
    /\ dir_path = "/games"
    /\ TitleEvents # <<>>
    /\ PopulateCount("/games/sub/e.XCI") = 1

-----------------------------------------------------------------------------
(* The watch list. *)

\* The directories entered so far, in the order they were entered.
DescendPaths ==
    LET IsDescend(e) == e.ev = "Descend"
        ds == SelectSeq(trace, IsDescend)
    IN [n \in 1..Len(ds) |-> ds[n].path]

\* C20: from the start of run() on, the watch list is the root followed by
\* the directories the walks have entered, in the order they entered them and
\* each within the recursion limit below the root; what a callback does for an
\* entry of a subdirectory comes after that subdirectory was entered in the
\* same pass, and Finished carries the list as it then is.
C20_WatchList ==
    pc \in {"fill", "titles", "populate", "done"} =>
        /\ watch_list = <<dir_path>> \o DescendPaths
        /\ \A n \in 2..Len(watch_list) :
              /\ IsDirectory(watch_list[n])
              /\ LevelsBelow(dir_path, watch_list[n]) >= 0
              /\ LevelsBelow(dir_path, watch_list[n]) + 1 <= RecursionLimit(deep_scan)
        /\ \A i \in 1..Len(trace) :
              (/\ trace[i].src \in {"fill", "populate"}
               /\ trace[i].ev \in {"Open", "AddEntry", "EntryReady", "Descend"}
               /\ ParentOf(trace[i].entry) # dir_path) =>
                  \E j \in 1..(i - 1) :
                      /\ trace[j].ev = "Descend"
                      /\ trace[j].src = trace[i].src
                      /\ trace[j].path = ParentOf(trace[i].entry)
        /\ \A n \in 1..Len(stack) : \E k \in 1..Len(watch_list) : watch_list[k] = stack[n].dir
        /\ cur # <<>> => \E k \in 1..Len(watch_list) : watch_list[k] = cur[1].dir
        /\ pc = "done" =>
              /\ trace[Len(trace)].ev = "Finished"
              /\ trace[Len(trace)].key = watch_list

\* A complete deep run of /games: both walks entered sub and sub/deep, and
\* Finished carried the root and the four descents.
C20_Witness ==
    /\ Completed
    /\ dir_path = "/games"
    /\ deep_scan
    /\ trace[Len(trace)].key =
          <<"/games", "/games/sub", "/games/sub/deep", "/games/sub", "/games/sub/deep">>

====
